---------------------------- MODULE Spec2Model ----------------------------
(***************************************************************************)
(* list_flows.py: a one-shot script that reads a credential from the       *)
(* environment, POSTs one JSON-RPC request, unwraps the double-encoded     *)
(* payload, writes it to a snapshot file and prints a summary.             *)
(*                                                                         *)
(* Texts (str) are TLA+ strings; a byte string (bytes) is a sequence of    *)
(* pieces, a run of ASCII bytes or one other byte; the snapshot file on    *)
(* disk is a sequence of one-char strings, with "NUL" for a byte of a hole *)
(* left by a write past the end.  JSON values are tagged records.          *)
(***************************************************************************)
EXTENDS Integers, Sequences, FiniteSets, TLC

(***************************************************************************)
(* Text helpers                                                            *)
(***************************************************************************)

\* s[i] of a Python str (1-based here), "" past either end
CharAt(s, i) == IF i >= 1 /\ i <= Len(s) THEN SubSeq(s, i, i) ELSE ""

\* s[:n]
Truncate(s, n) == IF Len(s) <= n THEN s ELSE SubSeq(s, 1, n)

Max(a, b) == IF a >= b THEN a ELSE b

RECURSIVE Spaces(_)
Spaces(n) == IF n <= 0 THEN "" ELSE " " \o Spaces(n - 1)

\* format(s, "<w") of a text: pad on the right up to width w, never cut
Ljust(s, w) == s \o Spaces(w - Len(s))

\* the texts f[lo..hi] one after the other (split in halves, for long texts)
RECURSIVE Join(_, _, _)
Join(f, lo, hi) ==
    IF lo > hi THEN ""
    ELSE IF lo = hi THEN f[lo]
    ELSE LET mid == (lo + hi) \div 2
         IN  Join(f, lo, mid) \o Join(f, mid + 1, hi)

Digits == "0123456789"

HexDigits == "0123456789abcdef"

RECURSIVE NatToStr(_)
NatToStr(n) ==
    IF n < 10 THEN CharAt(Digits, n + 1)
    ELSE NatToStr(n \div 10) \o CharAt(Digits, (n % 10) + 1)

\* str(n) of a Python int
IntToStr(n) == IF n < 0 THEN "-" \o NatToStr(-n) ELSE NatToStr(n)

\* the printable ASCII characters of codes 32..95 and 97..126 (a TLA+ string
\* cannot hold the character of code 96)
AsciiLow == " !\"#$%&'()*+,-./0123456789:;<=>?@ABCDEFGHIJKLMNOPQRSTUVWXYZ[\\]^_"

AsciiHigh == "abcdefghijklmnopqrstuvwxyz{|}~"

\* chr(n): the model's texts are ASCII (a TLA+ string of a state holds no
\* other character), "?" stands for a code point outside the table
Chr(n) ==
    IF n >= 32 /\ n <= 95 THEN CharAt(AsciiLow, n - 31)
    ELSE IF n >= 97 /\ n <= 126 THEN CharAt(AsciiHigh, n - 96)
    ELSE IF n = 10 THEN "\n"
    ELSE IF n = 13 THEN "\r"
    ELSE IF n = 9 THEN "\t"
    ELSE "?"

(***************************************************************************)
(* bytes.decode() / str.encode(): UTF-8, strict                            *)
(***************************************************************************)

\* A byte string is written the way a Python bytes literal is: runs of ASCII
\* bytes as the text they spell, any other byte as its number.
Ascii(s) == [byte |-> -1, text |-> s]

Byte(n) == [byte |-> n, text |-> ""]

\* the text of one piece of a byte string all of whose bytes are ASCII
PieceText(piece) == IF piece.byte < 0 THEN piece.text ELSE Chr(piece.byte)

\* b.decode(): [ok, text]; ok is FALSE on bytes that are not UTF-8
\* (UnicodeDecodeError).  The answers of the model hold ASCII bytes, and
\* bytes of 128 and more only where they are not UTF-8 (0xFF, or 0xE9
\* before an ASCII byte), so a byte of 128 or more fails the decoding.
Decode(b) ==
    IF \A i \in 1..Len(b) : b[i].byte < 128
    THEN [ok |-> TRUE, text |-> Join([i \in 1..Len(b) |-> PieceText(b[i])], 1, Len(b))]
    ELSE [ok |-> FALSE, text |-> ""]

\* s.encode(): the bytes a server sends for an ASCII text
Encode(s) == <<Ascii(s)>>

(***************************************************************************)
(* JSON values                                                             *)
(***************************************************************************)

JNull == [t |-> "null"]

JBool(b) == [t |-> "bool", b |-> b]

JInt(n) == [t |-> "int", n |-> n]

JStr(s) == [t |-> "str", s |-> s]

JList(xs) == [t |-> "list", xs |-> xs]

\* a dict: its items in insertion order, keys distinct
JDict(kvs) == [t |-> "dict", kvs |-> kvs]

\* a name not bound yet
Unset == [t |-> "unset"]

IsList(v) == v.t = "list"

IsDict(v) == v.t = "dict"

IsStr(v) == v.t = "str"

\* key in d
HasKey(d, k) == \E i \in 1..Len(d.kvs) : d.kvs[i].k = k

\* d[key], for a key that is there
Lookup(d, k) == d.kvs[CHOOSE i \in 1..Len(d.kvs) : d.kvs[i].k = k].v

\* d.get(key, default)
DictGet(d, k, default) == IF HasKey(d, k) THEN Lookup(d, k) ELSE default

\* d[key] = v, as json.loads builds a dict: a repeated key keeps its place
DictSet(kvs, k, v) ==
    IF \E i \in 1..Len(kvs) : kvs[i].k = k
    THEN [i \in 1..Len(kvs) |-> IF kvs[i].k = k THEN [k |-> k, v |-> v] ELSE kvs[i]]
    ELSE Append(kvs, [k |-> k, v |-> v])

(***************************************************************************)
(* json.loads                                                              *)
(* Every parsing operator returns [ok, v, i]: whether the text parses, the *)
(* value, and the position after it.  Numbers are the integers; the texts  *)
(* the model draws on hold no fraction and no exponent.                    *)
(***************************************************************************)

ParseFail == [ok |-> FALSE, v |-> Unset, i |-> 0]

IsWs(c) == c \in {" ", "\n", "\r", "\t"}

IsDigit(c) == c \in {"0", "1", "2", "3", "4", "5", "6", "7", "8", "9"}

RECURSIVE SkipWs(_, _)
SkipWs(s, i) == IF IsWs(CharAt(s, i)) THEN SkipWs(s, i + 1) ELSE i

\* the text s[i:i+Len(w)] is the word w
StartsWith(s, i, w) == i + Len(w) - 1 <= Len(s) /\ SubSeq(s, i, i + Len(w) - 1) = w

\* the value of a hexadecimal digit, -1 for any other character
HexVal(c) ==
    IF c = "" THEN -1
    ELSE IF \E k \in 1..16 : CharAt(HexDigits, k) = c
         THEN (CHOOSE k \in 1..16 : CharAt(HexDigits, k) = c) - 1
    ELSE IF \E k \in 1..6 : CharAt("ABCDEF", k) = c
         THEN (CHOOSE k \in 1..6 : CharAt("ABCDEF", k) = c) + 9
    ELSE -1

\* the character a backslash escape stands for, "" for an invalid escape
Unescape(c) ==
    IF c = "\"" THEN "\""
    ELSE IF c = "\\" THEN "\\"
    ELSE IF c = "/" THEN "/"
    ELSE IF c = "n" THEN "\n"
    ELSE IF c = "r" THEN "\r"
    ELSE IF c = "t" THEN "\t"
    ELSE ""

\* the first position from i on that holds a quote, a backslash or a
\* control character, Len(s) + 1 if there is none
RECURSIVE NextSpecial(_, _)
NextSpecial(s, i) ==
    IF i > Len(s) \/ CharAt(s, i) \in {"\"", "\\", "\n", "\r", "\t"} THEN i
    ELSE NextSpecial(s, i + 1)

\* the code point of the four hexadecimal digits at s[i..i+3], -1 if they
\* are not four hexadecimal digits
Hex4(s, i) ==
    IF \E k \in 0..3 : HexVal(CharAt(s, i + k)) < 0 THEN -1
    ELSE HexVal(CharAt(s, i)) * 4096 + HexVal(CharAt(s, i + 1)) * 256
             + HexVal(CharAt(s, i + 2)) * 16 + HexVal(CharAt(s, i + 3))

RECURSIVE ParseString(_, _, _)

\* py_scanstring at the special character s[j], with the text got so far
ScanSpecial(s, j, got) ==
    IF CharAt(s, j) = "\"" THEN [ok |-> TRUE, v |-> got, i |-> j + 1]
    ELSE IF CharAt(s, j) # "\\" THEN ParseFail
    ELSE IF CharAt(s, j + 1) = "u" THEN
        (IF Hex4(s, j + 2) < 0 THEN ParseFail
         ELSE ParseString(s, j + 6, got \o Chr(Hex4(s, j + 2))))
    ELSE IF Unescape(CharAt(s, j + 1)) = "" THEN ParseFail
    ELSE ParseString(s, j + 2, got \o Unescape(CharAt(s, j + 1)))

\* the plain characters s[i..j-1], then the special character at j
ScanPlain(s, i, j, acc) == ScanSpecial(s, j, acc \o SubSeq(s, i, j - 1))

\* py_scanstring, strict: i is the position after the opening quote (or
\* after what has been scanned into acc)
ParseString(s, i, acc) == ScanPlain(s, i, NextSpecial(s, i), acc)

\* the digits from position i on, as a number: [n, i]
RECURSIVE ParseDigits(_, _, _)
ParseDigits(s, i, n) ==
    IF IsDigit(CharAt(s, i))
    THEN ParseDigits(s, i + 1, n * 10 + HexVal(CharAt(s, i)))
    ELSE [n |-> n, i |-> i]

\* the digits of a number that starts, after its sign, at position j
NumberFrom(s, j, sign, d) == [ok |-> TRUE, v |-> JInt(sign * d.n), i |-> d.i]

\* NUMBER_RE: -?(0|[1-9]\d*) with its digits at position j
ParseUnsigned(s, j, sign) ==
    IF ~IsDigit(CharAt(s, j)) THEN ParseFail
    ELSE IF CharAt(s, j) = "0" THEN [ok |-> TRUE, v |-> JInt(0), i |-> j + 1]
    ELSE NumberFrom(s, j, sign, ParseDigits(s, j, 0))

ParseNumber(s, i) ==
    IF CharAt(s, i) = "-" THEN ParseUnsigned(s, i + 1, -1) ELSE ParseUnsigned(s, i, 1)

RECURSIVE ParseValue(_, _)
RECURSIVE ParseElements(_, _, _)
RECURSIVE ParseMembers(_, _, _)

\* after an element: "]" ends the array, "," goes on to the next element
ElementEnd(s, xs, j) ==
    IF CharAt(s, j) = "]" THEN [ok |-> TRUE, v |-> JList(xs), i |-> j + 1]
    ELSE IF CharAt(s, j) = "," THEN ParseElements(s, SkipWs(s, j + 1), xs)
    ELSE ParseFail

AfterElement(s, acc, e) ==
    IF ~e.ok THEN ParseFail ELSE ElementEnd(s, Append(acc, e.v), SkipWs(s, e.i))

\* JSONArray's loop: i is the position of the next element
ParseElements(s, i, acc) == AfterElement(s, acc, ParseValue(s, i))

\* after a member: "}" ends the object, "," goes on to the next key
MemberEnd(s, kvs, j) ==
    IF CharAt(s, j) = "}" THEN [ok |-> TRUE, v |-> JDict(kvs), i |-> j + 1]
    ELSE IF CharAt(s, j) = "," THEN ParseMembers(s, SkipWs(s, j + 1), kvs)
    ELSE ParseFail

AfterMember(s, acc, key, e) ==
    IF ~e.ok THEN ParseFail ELSE MemberEnd(s, DictSet(acc, key, e.v), SkipWs(s, e.i))

AfterColon(s, acc, key, c) ==
    IF CharAt(s, c) # ":" THEN ParseFail
    ELSE AfterMember(s, acc, key, ParseValue(s, SkipWs(s, c + 1)))

AfterKey(s, acc, k) ==
    IF ~k.ok THEN ParseFail ELSE AfterColon(s, acc, k.v, SkipWs(s, k.i))

\* JSONObject's loop: i is the position of the next key's opening quote
ParseMembers(s, i, acc) ==
    IF CharAt(s, i) # "\"" THEN ParseFail ELSE AfterKey(s, acc, ParseString(s, i + 1, ""))

\* a scanned string as a value
StringValue(r) == IF r.ok THEN [ok |-> TRUE, v |-> JStr(r.v), i |-> r.i] ELSE ParseFail

\* after "{" and "[": the empty container, or the loop
ObjectFrom(s, j) ==
    IF CharAt(s, j) = "}" THEN [ok |-> TRUE, v |-> JDict(<<>>), i |-> j + 1]
    ELSE ParseMembers(s, j, <<>>)

ArrayFrom(s, j) ==
    IF CharAt(s, j) = "]" THEN [ok |-> TRUE, v |-> JList(<<>>), i |-> j + 1]
    ELSE ParseElements(s, j, <<>>)

\* scan_once: the value that starts at position i
ParseValue(s, i) ==
    IF CharAt(s, i) = "\"" THEN StringValue(ParseString(s, i + 1, ""))
    ELSE IF CharAt(s, i) = "{" THEN ObjectFrom(s, SkipWs(s, i + 1))
    ELSE IF CharAt(s, i) = "[" THEN ArrayFrom(s, SkipWs(s, i + 1))
    ELSE IF StartsWith(s, i, "null") THEN [ok |-> TRUE, v |-> JNull, i |-> i + 4]
    ELSE IF StartsWith(s, i, "true") THEN [ok |-> TRUE, v |-> JBool(TRUE), i |-> i + 4]
    ELSE IF StartsWith(s, i, "false") THEN [ok |-> TRUE, v |-> JBool(FALSE), i |-> i + 5]
    ELSE ParseNumber(s, i)

\* the whole text must be one value
WholeText(s, r) ==
    IF r.ok /\ SkipWs(s, r.i) = Len(s) + 1 THEN [ok |-> TRUE, v |-> r.v]
    ELSE [ok |-> FALSE, v |-> Unset]

\* json.loads(s) of a text: [ok, v]; ok is FALSE for a JSONDecodeError
Loads(s) == WholeText(s, ParseValue(s, SkipWs(s, 1)))

(***************************************************************************)
(* json.dumps(v, indent=2) and the texts print() and f-strings make        *)
(***************************************************************************)

\* the indent= argument of every json.dump(s) call of the script
Indent == 2

\* ESCAPE_ASCII of one ASCII character
EscapeChar(c) ==
    IF c = "\"" THEN "\\\""
    ELSE IF c = "\\" THEN "\\\\"
    ELSE IF c = "\n" THEN "\\n"
    ELSE IF c = "\r" THEN "\\r"
    ELSE IF c = "\t" THEN "\\t"
    ELSE c

\* a str as a JSON string literal
Quote(s) == "\"" \o Join([i \in 1..Len(s) |-> EscapeChar(CharAt(s, i))], 1, Len(s)) \o "\""

RECURSIVE Dumps(_, _)
RECURSIVE DumpItems(_, _, _)
RECURSIVE DumpPairs(_, _, _)

\* the elements xs[i..] one per line at nesting level lvl
DumpItems(xs, i, lvl) ==
    Spaces(Indent * lvl) \o Dumps(xs[i], lvl)
        \o (IF i = Len(xs) THEN "" ELSE ",\n" \o DumpItems(xs, i + 1, lvl))

DumpPairs(kvs, i, lvl) ==
    Spaces(Indent * lvl) \o Quote(kvs[i].k) \o ": " \o Dumps(kvs[i].v, lvl)
        \o (IF i = Len(kvs) THEN "" ELSE ",\n" \o DumpPairs(kvs, i + 1, lvl))

\* json.dumps(v, indent=2) of a value that sits at nesting level lvl
Dumps(v, lvl) ==
    IF v.t = "null" THEN "null"
    ELSE IF v.t = "bool" THEN (IF v.b THEN "true" ELSE "false")
    ELSE IF v.t = "int" THEN IntToStr(v.n)
    ELSE IF v.t = "str" THEN Quote(v.s)
    ELSE IF v.t = "list" THEN
        IF Len(v.xs) = 0 THEN "[]"
        ELSE "[\n" \o DumpItems(v.xs, 1, lvl + 1) \o "\n" \o Spaces(Indent * lvl) \o "]"
    ELSE IF Len(v.kvs) = 0 THEN "{}"
         ELSE "{\n" \o DumpPairs(v.kvs, 1, lvl + 1) \o "\n" \o Spaces(Indent * lvl) \o "}"

JsonDumps(v) == Dumps(v, 0)

\* repr() of a str
ReprChar(c, q) ==
    IF c = q THEN "\\" \o q
    ELSE IF c = "\\" THEN "\\\\"
    ELSE IF c = "\n" THEN "\\n"
    ELSE IF c = "\r" THEN "\\r"
    ELSE IF c = "\t" THEN "\\t"
    ELSE c

HasChar(s, c) == \E i \in 1..Len(s) : CharAt(s, i) = c

ReprStr(s) ==
    LET q == IF HasChar(s, "'") /\ ~HasChar(s, "\"") THEN "\"" ELSE "'"
    IN  q \o Join([i \in 1..Len(s) |-> ReprChar(CharAt(s, i), q)], 1, Len(s)) \o q

RECURSIVE PyRepr(_)
RECURSIVE ReprItems(_, _)
RECURSIVE ReprPairs(_, _)

ReprItems(xs, i) ==
    IF i > Len(xs) THEN ""
    ELSE PyRepr(xs[i]) \o (IF i = Len(xs) THEN "" ELSE ", " \o ReprItems(xs, i + 1))

ReprPairs(kvs, i) ==
    IF i > Len(kvs) THEN ""
    ELSE ReprStr(kvs[i].k) \o ": " \o PyRepr(kvs[i].v)
             \o (IF i = Len(kvs) THEN "" ELSE ", " \o ReprPairs(kvs, i + 1))

\* repr(v) of a value json.loads made
PyRepr(v) ==
    IF v.t = "null" THEN "None"
    ELSE IF v.t = "bool" THEN (IF v.b THEN "True" ELSE "False")
    ELSE IF v.t = "int" THEN IntToStr(v.n)
    ELSE IF v.t = "str" THEN ReprStr(v.s)
    ELSE IF v.t = "list" THEN "[" \o ReprItems(v.xs, 1) \o "]"
    ELSE "{" \o ReprPairs(v.kvs, 1) \o "}"

\* f"{v}": str(v)
PyStr(v) == IF v.t = "str" THEN v.s ELSE PyRepr(v)

\* f"{v:<w}": [ok, text]; ok is FALSE where __format__ refuses the format
\* text (TypeError: None, list, dict)
FormatLeft(v, w) ==
    IF v.t = "str" THEN [ok |-> TRUE, text |-> Ljust(v.s, w)]
    ELSE IF v.t = "int" THEN [ok |-> TRUE, text |-> Ljust(IntToStr(v.n), w)]
    ELSE IF v.t = "bool" THEN [ok |-> TRUE, text |-> Ljust(IF v.b THEN "1" ELSE "0", w)]
    ELSE [ok |-> FALSE, text |-> ""]

\* v without the slice
SliceToWhole(v, n) ==
    IF v.t \in {"str", "list"} THEN [ok |-> TRUE, v |-> v] ELSE [ok |-> FALSE, v |-> Unset]

\* v[:n]: [ok, v]; ok is FALSE where the value cannot be sliced (TypeError)
SliceTo(v, n) ==
    IF v.t = "str" THEN [ok |-> TRUE, v |-> JStr(Truncate(v.s, n))]
    ELSE IF v.t = "list"
         THEN [ok |-> TRUE, v |-> JList(IF Len(v.xs) <= n THEN v.xs ELSE SubSeq(v.xs, 1, n))]
    ELSE [ok |-> FALSE, v |-> Unset]

(***************************************************************************)
(* Subscripting and membership on the values json.loads made               *)
(* Each returns [ok, v, exc]: exc names the exception where ok is FALSE.   *)
(***************************************************************************)

Ok(v) == [ok |-> TRUE, v |-> v, exc |-> ""]

Err(e) == [ok |-> FALSE, v |-> Unset, exc |-> e]

\* v[key] for a str key
Subscript(v, key) ==
    IF v.t = "dict" THEN (IF HasKey(v, key) THEN Ok(Lookup(v, key)) ELSE Err("KeyError"))
    ELSE Err("TypeError")

\* v[0]
First(v) ==
    IF v.t = "list" THEN (IF Len(v.xs) > 0 THEN Ok(v.xs[1]) ELSE Err("IndexError"))
    ELSE IF v.t = "str" THEN (IF Len(v.s) > 0 THEN Ok(JStr(CharAt(v.s, 1))) ELSE Err("IndexError"))
    ELSE IF v.t = "dict" THEN Err("KeyError")
    ELSE Err("TypeError")

\* a membership test that looks for another word and never finds it
ContainsNever(v, word) ==
    IF v.t \in {"dict", "list", "str"} THEN Ok(JBool(FALSE)) ELSE Err("TypeError")

\* word in v: a key of a dict, an element of a list, a substring of a str
Contains(v, word) ==
    IF v.t = "dict" THEN Ok(JBool(HasKey(v, word)))
    ELSE IF v.t = "list" THEN Ok(JBool(\E i \in 1..Len(v.xs) : v.xs[i] = JStr(word)))
    ELSE IF v.t = "str" THEN Ok(JBool(\E i \in 1..Len(v.s) : StartsWith(v.s, i, word)))
    ELSE Err("TypeError")

\* a JSONDecodeError for a text that does not parse
Parsed(r) == IF r.ok THEN Ok(r.v) ELSE Err("JSONDecodeError")

\* json.loads(v) of a value: a str is parsed, anything else is a TypeError
LoadsValue(v) == IF v.t # "str" THEN Err("TypeError") ELSE Parsed(Loads(v.s))

\* json.loads of decoded bytes
LoadsDecoded(d) == IF ~d.ok THEN Err("UnicodeDecodeError") ELSE Parsed(Loads(d.text))

\* json.loads(raw) of the bytes read from the response
LoadsBytes(b) == LoadsDecoded(Decode(b))

\* r[key], r[0], json.loads(r) of a result so far: the first exception stands
ThenSubscript(r, key) == IF ~r.ok THEN r ELSE Subscript(r.v, key)

ThenFirst(r) == IF ~r.ok THEN r ELSE First(r.v)

ThenLoads(r) == IF ~r.ok THEN r ELSE LoadsValue(r.v)

\* resp["result"]["content"][0]["text"]
InnerText(resp) ==
    ThenSubscript(ThenFirst(ThenSubscript(Subscript(resp, "result"), "content")), "text")

\* json.loads(resp["result"]["content"][0]["text"])
ExtractInner(resp) == ThenLoads(InnerText(resp))

(***************************************************************************)
(* The snapshot file                                                       *)
(***************************************************************************)

\* the characters of a text, one per byte of the file
Chars(s) == [i \in 1..Len(s) |-> CharAt(s, i)]

\* the text layer's newline translation on writing: "\n" becomes os.linesep
Translate(s, linesep) ==
    Join([i \in 1..Len(s) |-> IF CharAt(s, i) = "\n" THEN linesep ELSE CharAt(s, i)],
         1, Len(s))

\* what json.dump(inner, f, indent=2) hands to the file object
Serialized(v, linesep) == Translate(JsonDumps(v), linesep)

\* write(2) of the bytes chunk at offset pos: bytes after the write stay,
\* a gap between the old end and pos reads as NUL
WriteAt(data, pos, chunk) ==
    [i \in 1..Max(Len(data), pos + Len(chunk)) |->
        IF i > pos /\ i <= pos + Len(chunk) THEN chunk[i - pos]
        ELSE IF i <= Len(data) THEN data[i]
        ELSE "NUL"]

\* open(path, "r+"), or "a" with a seek: the file keeps its bytes
OpenKeep(f) == [exists |-> TRUE, data |-> f.data]

\* open(path, "w"): the file is there and empty
OpenTruncate(f) == [exists |-> TRUE, data |-> <<>>]

(***************************************************************************)
(* The environment: the credential variable and the server's answers       *)
(***************************************************************************)

\* os.environ with and without FLOWSTUDIO_MCP_TOKEN_FS
EnvUnset == [set |-> FALSE, val |-> ""]

EnvEmpty == [set |-> TRUE, val |-> ""]

EnvToken == [set |-> TRUE, val |-> "fs-key-1"]

Environments == {EnvUnset, EnvEmpty, EnvToken}

\* os.environ.get(name, default)
EnvironGet(env, default) == IF env.set THEN env.val ELSE default

\* the texts a server may put in result.content[0].text
InnerTexts == <<
    "[]",
    "[{\"id\":\"abcdefghijklmnop\",\"displayName\":\"Daily Sync\",\"state\":\"active\",\"triggerType\":\"schedule\"}]",
    "[{\"id\":\"short\"}, {\"displayName\":\"No id\",\"state\":\"stopped\"}, {}]",
    "[{\"triggerType\":\"a trigger type of more than fifteen\",\"id\":\"exactly12chr\",\"state\":\"suspended-long\"}]",
    "[5]",
    "[{\"id\": 5, \"displayName\": \"numeric id\"}]",
    "[{\"id\":\"ok-flow-0001\",\"state\":\"on\"},{\"id\":\"x\",\"state\":null}]",
    "[{\"id\":[\"a\",\"b\"],\"displayName\":{\"n\":[1,null]},\"state\":7,\"triggerType\":true}]",
    "{\"error\": \"quota exceeded\"}",
    "{\"error\": {\"code\": 429, \"detail\": [\"slow\", \"down\"]}, \"flows\": []}",
    "{\"foo\": \"bar\"}",
    "{\"flows\": [{\"id\": \"caf\\u0065 \\\"q\\\"\", \"n\": -12}], \"next\": null}",
    "\"error\"",
    "42"
>>

\* the response body that carries an inner text
Envelope(text) ==
    "{\"jsonrpc\": \"2.0\", \"id\": 1, \"result\": {\"content\": [{\"type\": \"text\", \"text\": "
        \o Quote(text) \o "}]}}"

\* other bodies of a 200 answer
OuterTexts == <<
    "{\"jsonrpc\": \"2.0\", \"id\": 1, \"error\": {\"code\": -32601, \"message\": \"no such method\"}}",
    "{\"result\": {\"content\": [{\"text\": \"[]\"}]}, \"error\": \"both\"}",
    "{\"error\": null}",
    "{\"result\": {\"content\": []}}",
    "{\"result\": {\"content\": {}}}",
    "{\"result\": {\"content\": [5]}}",
    "{\"result\": {\"content\": \"text\"}}",
    "{\"result\": {\"content\": [{\"type\": \"text\"}]}}",
    "{\"result\": {\"content\": [{\"text\": 5}]}}",
    "{\"result\": {\"content\": [{\"text\": \"not json\"}]}}",
    "{\"result\": {\"content\": [{\"text\": \"[1,]\"}]}}",
    "{\"result\": []}",
    "{}",
    "[\"error\"]",
    "\"an error\"",
    " [\"fine\"] ",
    "5",
    "<html>gateway</html>",
    ""
>>

\* a body of n bytes "x"
Filler(n) == <<Ascii(Join([i \in 1..n |-> "x"], 1, n))>>

HttpError(code, body) == [kind |-> "http_error", code |-> code, body |-> body]

HttpOk(body) == [kind |-> "ok", code |-> 200, body |-> body]

\* answers that are not a 200 with a text body
OtherResponse(k) ==
    CASE k = 1 -> HttpOk(<<Ascii("{\""), Byte(255), Ascii("\":1}")>>)
      [] k = 2 -> HttpError(404, Encode("not found"))
      [] k = 3 -> HttpError(500, Filler(299) \o Encode("yz-cut here"))
      [] k = 4 -> HttpError(401, Encode("key refused") \o Filler(290))
      [] k = 5 -> HttpError(502, <<Ascii("<h1>"), Byte(233), Ascii("</h1>")>>)
      [] k = 6 -> HttpError(503, <<>>)
      [] k = 7 -> [kind |-> "url_error", code |-> 0, body |-> <<>>]

NumResponses == Len(InnerTexts) + Len(OuterTexts) + 7

\* what urlopen can come back with: an answer with an error status, an
\* answer with a body, or no answer (timeout, DNS, reset: URLError)
Responses ==
    [i \in 1..NumResponses |->
        IF i <= Len(InnerTexts) THEN HttpOk(Encode(Envelope(InnerTexts[i])))
        ELSE IF i <= Len(InnerTexts) + Len(OuterTexts)
        THEN HttpOk(Encode(OuterTexts[i - Len(InnerTexts)]))
        ELSE OtherResponse(i - Len(InnerTexts) - Len(OuterTexts))]

(***************************************************************************)
(* Program constants                                                       *)
(***************************************************************************)

\* [:300] of the error body
ErrorBodyLimit == 300

\* [:12] of a flow's id
IdWidth == 12

\* {state:<10}
StateWidth == 10

\* {trigger:<15}
TriggerWidth == 15

\* [:2000] of the fallback dump
DumpLimit == 2000

\* exit(1)
ExitFailure == 1

\* the status of a run that reaches the end of the script
ExitSuccess == 0

\* the status the interpreter ends with on an uncaught exception
ExitUncaught == 1

(***************************************************************************)
(* Bounds of the model                                                     *)
(***************************************************************************)

\* invocations of the script in one behaviour
MaxRuns == 2

\* bytes the file object hands to the operating system in one write
BufSize == 64

(***************************************************************************)
(* State                                                                   *)
(*   proc[p]   the interpreter state of caller p's invocation: position    *)
(*             ("idle" before p's first invocation), names bound so far,   *)
(*             the requests it sent, the text it printed, its exit status; *)
(*             "before" is the file as it was when the invocation started  *)
(*   runs      invocations started so far                                  *)
(*   file      the snapshot file: whether it exists, and its bytes         *)
(*   linesep   os.linesep of the platform                                  *)
(*   server    the answers the server side may give (indexes of Responses) *)
(*   prev      the last invocation that ended before another started:      *)
(*             the answer it got and the file it left                      *)
(***************************************************************************)
VARIABLES proc, file, linesep, server, runs, prev

vars == <<proc, file, linesep, server, runs, prev>>

Procs == DOMAIN proc

\* r with the fields of ch set
Upd(r, ch) == [f \in DOMAIN r |-> IF f \in DOMAIN ch THEN ch[f] ELSE r[f]]

\* nothing has come back from the server
NoAnswer == [kind |-> "none", code |-> 0, body |-> <<>>]

\* the interpreter at the first line, under environment env, the file being f
Fresh(env, f) ==
    [pc |-> "start", env |-> env, token |-> "", sent |-> <<>>, http |-> 0,
     answer |-> NoAnswer,
     resp |-> Unset, inner |-> Unset, buf |-> "", pos |-> 0, row |-> 0,
     out |-> <<>>, exitCode |-> -1, exc |-> "", before |-> f]

\* exit(code)
Exit(code) == [pc |-> "exited", exitCode |-> code]

\* an exception nothing catches: traceback, then the interpreter's status
Raise(e) == [pc |-> "exited", exitCode |-> ExitUncaught, exc |-> e]

\* print(text)
Printed(out, text) == Append(out, text)

\* the request of lines 8-21
Request(token) ==
    [url |-> "https://mcp.flowstudio.app/mcp",
     key |-> token,
     data |-> "{\"jsonrpc\": \"2.0\", \"id\": 1, \"method\": \"tools/list\", \"params\": {}}"]

\* the bytes read from the response
Raw(q) == q.answer.body

\* the credential check left out
NoTokenUnchecked(token) == FALSE

\* "not token"
NoToken(token) == token = ""

(***************************************************************************)
(* Initial states                                                          *)
(***************************************************************************)

NoFile == [exists |-> FALSE, data |-> <<>>]

\* a caller that has not started the script yet
Idle == Upd(Fresh(EnvUnset, NoFile), [pc |-> "idle"])

OldSnapshot == [exists |-> TRUE, data |-> Chars("{\"stale\": \"left by an earlier run\"}\n")]

NoPrev == [http |-> 0, file |-> NoFile, wrote |-> FALSE]

\* the answers the concurrent specification draws on: one per branch that
\* writes, of different lengths, and one for each way of ending early
RaceAnswers == {2, 9, 11, 35}

InitWith(procs, answers, files) ==
    /\ file \in files
    /\ proc = [p \in procs |-> Idle]
    /\ runs = 0
    /\ linesep \in {"\n", "\r\n"}
    /\ server = answers
    /\ prev = NoPrev

\* one invocation at a time
Init == InitWith({1}, 1..NumResponses, {NoFile, OldSnapshot})

\* two invocations side by side, over a snapshot an earlier run left
InitRace == InitWith({1, 2}, RaceAnswers, {OldSnapshot})

(***************************************************************************)
(* The script, line by line                                                *)
(***************************************************************************)

\* lines 3-6
ReadToken(p) ==
    /\ proc[p].pc = "start"
    /\ LET token == EnvironGet(proc[p].env, "")
       IN  proc' = [proc EXCEPT ![p] =
                IF NoToken(token)
                THEN Upd(@, [token |-> token, out |-> Printed(@.out, "NO TOKEN SET")]
                               @@ Exit(ExitFailure))
                ELSE Upd(@, [token |-> token, pc |-> "request"])]
    /\ UNCHANGED <<file, linesep, server, runs, prev>>

\* line 24, urlopen(req, timeout=60): the request goes out once and the
\* server's answer, or no answer, comes back
Urlopen(p) ==
    /\ proc[p].pc = "request"
    /\ \E r \in server :
        LET sent == Append(proc[p].sent, Request(proc[p].token))
            answer == Responses[r]
            got == [sent |-> sent, http |-> r, answer |-> answer]
        IN  proc' = [proc EXCEPT ![p] =
                IF answer.kind = "url_error" THEN Upd(@, got @@ Raise("URLError"))
                ELSE IF answer.kind = "http_error" THEN Upd(@, got @@ [pc |-> "except"])
                ELSE Upd(@, got @@ [pc |-> "loads"])]
    /\ UNCHANGED <<file, linesep, server, runs, prev>>

\* the text line 27 prints
HttpErrorText(code, body) == "HTTP " \o IntToStr(code) \o ": " \o Truncate(body, ErrorBodyLimit)

\* lines 26-28
HandleHTTPError(p) ==
    /\ proc[p].pc = "except"
    /\ LET e == proc[p].answer
           d == Decode(e.body)
       IN  proc' = [proc EXCEPT ![p] =
                IF ~d.ok THEN Upd(@, Raise("UnicodeDecodeError"))
                ELSE Upd(@, [out |-> Printed(@.out, HttpErrorText(e.code, d.text))]
                               @@ Exit(ExitFailure))]
    /\ UNCHANGED <<file, linesep, server, runs, prev>>

\* line 25
ParseEnvelope(p) ==
    /\ proc[p].pc = "loads"
    /\ LET r == LoadsBytes(Raw(proc[p]))
       IN  proc' = [proc EXCEPT ![p] =
                IF ~r.ok THEN Upd(@, Raise(r.exc))
                ELSE Upd(@, [resp |-> r.v, pc |-> "check"])]
    /\ UNCHANGED <<file, linesep, server, runs, prev>>

\* the text line 31 prints: print joins its two arguments with a space
RpcErrorText(err) == "JSON-RPC ERROR:" \o " " \o JsonDumps(err)

\* lines 30-31 without the exit(1) of line 32
CheckEnvelopeGoesOn(p) ==
    /\ proc[p].pc = "check"
    /\ LET c == Contains(proc[p].resp, "error")
           e == Subscript(proc[p].resp, "error")
       IN  proc' = [proc EXCEPT ![p] =
                IF ~c.ok THEN Upd(@, Raise(c.exc))
                ELSE IF ~c.v.b THEN Upd(@, [pc |-> "extract"])
                ELSE IF ~e.ok THEN Upd(@, Raise(e.exc))
                ELSE Upd(@, [out |-> Printed(@.out, RpcErrorText(e.v)), pc |-> "extract"])]
    /\ UNCHANGED <<file, linesep, server, runs, prev>>

\* lines 30-32
CheckEnvelope(p) ==
    /\ proc[p].pc = "check"
    /\ LET c == Contains(proc[p].resp, "error")
           e == Subscript(proc[p].resp, "error")
       IN  proc' = [proc EXCEPT ![p] =
                IF ~c.ok THEN Upd(@, Raise(c.exc))
                ELSE IF ~c.v.b THEN Upd(@, [pc |-> "extract"])
                ELSE IF ~e.ok THEN Upd(@, Raise(e.exc))
                ELSE Upd(@, [out |-> Printed(@.out, RpcErrorText(e.v))] @@ Exit(ExitFailure))]
    /\ UNCHANGED <<file, linesep, server, runs, prev>>

\* line 34
DecodeInner(p) ==
    /\ proc[p].pc = "extract"
    /\ LET r == ExtractInner(proc[p].resp)
       IN  proc' = [proc EXCEPT ![p] =
                IF ~r.ok THEN Upd(@, Raise(r.exc))
                ELSE Upd(@, [inner |-> r.v, pc |-> "open"])]
    /\ UNCHANGED <<file, linesep, server, runs, prev>>

\* line 36, open(path, "w")
OpenSnapshot(p) ==
    /\ proc[p].pc = "open"
    /\ file' = OpenTruncate(file)
    /\ proc' = [proc EXCEPT ![p] = Upd(@, [pos |-> 0, buf |-> "", pc |-> "dump"])]
    /\ UNCHANGED <<linesep, server, runs, prev>>

\* line 37, json.dump(inner, f, indent=2): the text goes to the file object
JsonDump(p) ==
    /\ proc[p].pc = "dump"
    /\ proc' = [proc EXCEPT ![p] =
            Upd(@, [buf |-> Serialized(@.inner, linesep), pc |-> "write"])]
    /\ UNCHANGED <<file, linesep, server, runs, prev>>

\* the file object's buffer is full: it writes BufSize bytes at its offset
FlushBuffer(p) ==
    /\ proc[p].pc = "write"
    /\ Len(proc[p].buf) > BufSize
    /\ file' = [file EXCEPT !.data =
            WriteAt(@, proc[p].pos, Chars(SubSeq(proc[p].buf, 1, BufSize)))]
    /\ proc' = [proc EXCEPT ![p] =
            Upd(@, [buf |-> SubSeq(@.buf, BufSize + 1, Len(@.buf)), pos |-> @.pos + BufSize])]
    /\ UNCHANGED <<linesep, server, runs, prev>>

\* the script goes on with the buffer unwritten (no with block, no close)
CloseSnapshotUnflushed(p) ==
    /\ proc[p].pc = "write"
    /\ Len(proc[p].buf) <= BufSize
    /\ proc' = [proc EXCEPT ![p] = Upd(@, [pc |-> "present"])]
    /\ UNCHANGED <<file, linesep, server, runs, prev>>

\* the end of the with block: the rest of the buffer is written, the file closed
CloseSnapshot(p) ==
    /\ proc[p].pc = "write"
    /\ Len(proc[p].buf) <= BufSize
    /\ file' = [file EXCEPT !.data = WriteAt(@, proc[p].pos, Chars(proc[p].buf))]
    /\ proc' = [proc EXCEPT ![p] =
            Upd(@, [buf |-> "", pos |-> @.pos + Len(@.buf), pc |-> "present"])]
    /\ UNCHANGED <<linesep, server, runs, prev>>

\* the text line 40 prints (print adds the second line break)
TotalText(inner) == "Total flows: " \o IntToStr(Len(inner.xs)) \o "\n"

\* isinstance(inner, list)
IsFlowList(inner) == IsList(inner)

\* isinstance(inner, dict) and "error" in inner
IsInnerError(inner) == IsDict(inner) /\ HasKey(inner, "error")

\* lines 42-46 for one element: [ok, v, exc], v the text of the row
RowText(fl) ==
    IF ~IsDict(fl) THEN Err("AttributeError")
    ELSE LET fid == SliceTo(DictGet(fl, "id", JStr("?")), IdWidth)
             name == DictGet(fl, "displayName", JStr("?"))
             state == FormatLeft(DictGet(fl, "state", JStr("?")), StateWidth)
             trigger == FormatLeft(DictGet(fl, "triggerType", JStr("?")), TriggerWidth)
         IN  IF ~fid.ok \/ ~state.ok \/ ~trigger.ok THEN Err("TypeError")
             ELSE Ok("  " \o PyStr(fid.v) \o "..  | " \o state.text \o " | "
                         \o trigger.text \o " | " \o PyStr(name))

\* the text line 48 prints
InnerErrorText(inner) == "ERROR:" \o " " \o JsonDumps(Lookup(inner, "error"))

\* the text line 50 prints
FallbackText(inner) == Truncate(JsonDumps(inner), DumpLimit)

\* lines 39-40
PresentList(p) ==
    /\ proc[p].pc = "present"
    /\ IsFlowList(proc[p].inner)
    /\ proc' = [proc EXCEPT ![p] =
            Upd(@, [out |-> Printed(@.out, TotalText(@.inner)), row |-> 1, pc |-> "rows"])]
    /\ UNCHANGED <<file, linesep, server, runs, prev>>

\* lines 41-46, one turn of the loop
PrintRow(p) ==
    /\ proc[p].pc = "rows"
    /\ proc[p].row <= Len(proc[p].inner.xs)
    /\ LET r == RowText(proc[p].inner.xs[proc[p].row])
       IN  proc' = [proc EXCEPT ![p] =
                IF ~r.ok THEN Upd(@, Raise(r.exc))
                ELSE Upd(@, [out |-> Printed(@.out, r.v), row |-> @.row + 1])]
    /\ UNCHANGED <<file, linesep, server, runs, prev>>

\* the loop is over and the script ends
EndOfList(p) ==
    /\ proc[p].pc = "rows"
    /\ proc[p].row > Len(proc[p].inner.xs)
    /\ proc' = [proc EXCEPT ![p] = Upd(@, Exit(ExitSuccess))]
    /\ UNCHANGED <<file, linesep, server, runs, prev>>

\* lines 47-48 followed by exit(1)
PresentErrorFatal(p) ==
    /\ proc[p].pc = "present"
    /\ ~IsFlowList(proc[p].inner)
    /\ IsInnerError(proc[p].inner)
    /\ proc' = [proc EXCEPT ![p] =
            Upd(@, [out |-> Printed(@.out, InnerErrorText(@.inner))] @@ Exit(ExitFailure))]
    /\ UNCHANGED <<file, linesep, server, runs, prev>>

\* lines 47-48, and the script ends
PresentError(p) ==
    /\ proc[p].pc = "present"
    /\ ~IsFlowList(proc[p].inner)
    /\ IsInnerError(proc[p].inner)
    /\ proc' = [proc EXCEPT ![p] =
            Upd(@, [out |-> Printed(@.out, InnerErrorText(@.inner))] @@ Exit(ExitSuccess))]
    /\ UNCHANGED <<file, linesep, server, runs, prev>>

\* lines 49-50, and the script ends
PresentDump(p) ==
    /\ proc[p].pc = "present"
    /\ ~IsFlowList(proc[p].inner)
    /\ ~IsInnerError(proc[p].inner)
    /\ proc' = [proc EXCEPT ![p] =
            Upd(@, [out |-> Printed(@.out, FallbackText(@.inner))] @@ Exit(ExitSuccess))]
    /\ UNCHANGED <<file, linesep, server, runs, prev>>

\* a caller starts the script, for the first time or once its last
\* invocation has ended
Invoke(p) ==
    /\ proc[p].pc \in {"idle", "exited"}
    /\ runs < MaxRuns
    /\ runs' = runs + 1
    /\ prev' = IF proc[p].pc = "exited"
               THEN [http |-> proc[p].http, file |-> file, wrote |-> proc[p].inner # Unset]
               ELSE prev
    /\ \E e \in Environments : proc' = [proc EXCEPT ![p] = Fresh(e, file)]
    /\ UNCHANGED <<file, linesep, server>>

Next ==
    \/ \E p \in Procs : ReadToken(p)
    \/ \E p \in Procs : Urlopen(p)
    \/ \E p \in Procs : HandleHTTPError(p)
    \/ \E p \in Procs : ParseEnvelope(p)
    \/ \E p \in Procs : CheckEnvelope(p)
    \/ \E p \in Procs : DecodeInner(p)
    \/ \E p \in Procs : OpenSnapshot(p)
    \/ \E p \in Procs : JsonDump(p)
    \/ \E p \in Procs : FlushBuffer(p)
    \/ \E p \in Procs : CloseSnapshot(p)
    \/ \E p \in Procs : PresentList(p)
    \/ \E p \in Procs : PrintRow(p)
    \/ \E p \in Procs : EndOfList(p)
    \/ \E p \in Procs : PresentError(p)
    \/ \E p \in Procs : PresentDump(p)
    \/ \E p \in Procs : Invoke(p)

\* invocations one after the other
Spec == Init /\ [][Next]_vars

\* two invocations against the same snapshot path
SpecRace == InitRace /\ [][Next]_vars


(***************************************************************************)
(* Properties                                                              *)
(***************************************************************************)

\* p's invocation has ended
Ended(p) == proc[p].pc = "exited"

\* the credential variable is absent or empty in p's invocation
NoCredential(p) ==
    proc[p].pc # "idle" /\ (~proc[p].env.set \/ proc[p].env.val = "")

\* the server answered p's request with an HTTP error status
HttpStatusError(p) == proc[p].answer.kind = "http_error"

\* the outer envelope p parsed is a mapping with an "error" key
OuterError(p) == IsDict(proc[p].resp) /\ HasKey(proc[p].resp, "error")

\* p's invocation ended in an exception nothing caught
Unhandled(p) == Ended(p) /\ proc[p].exc # ""

\* p's invocation reached a presentation branch and completed it
Presented(p) == Ended(p) /\ proc[p].inner # Unset /\ proc[p].exc = ""

\* the snapshot file holds exactly the serialization of v
Holds(v) == file = [exists |-> TRUE, data |-> Chars(Serialized(v, linesep))]

\* C1: when the credential variable is absent or empty, the run prints the
\* fixed diagnostic and ends with exit code 1; it never sends the HTTP
\* request and the snapshot file stays as it was before the run.
C1_NoCredential ==
    \A p \in Procs :
        NoCredential(p) =>
            /\ proc[p].pc \in {"start", "exited"}
            /\ proc[p].sent = <<>>
            /\ file = proc[p].before
            /\ Ended(p) => proc[p].out = <<"NO TOKEN SET">> /\ proc[p].exitCode = 1

\* C1: a run with the variable set to the empty text has ended, a snapshot
\* of an earlier run being on disk
C1_Witness ==
    \E p \in Procs :
        Ended(p) /\ NoCredential(p) /\ proc[p].env.set /\ proc[p].before = OldSnapshot

\* C2 as the claim states it: a run whose inner payload is a mapping with an
\* "error" field prints that field under the "ERROR:" prefix and exits with
\* code 1, the payload being already written to the snapshot file.
C2_InnerErrorExitsOne ==
    \A p \in Procs :
        Ended(p) /\ IsDict(proc[p].inner) /\ HasKey(proc[p].inner, "error") =>
            /\ proc[p].out = <<"ERROR: " \o JsonDumps(Lookup(proc[p].inner, "error"))>>
            /\ Holds(proc[p].inner)
            /\ proc[p].exitCode = 1

\* C3 as the claim states it: a run that completes a presentation branch
\* ends with exit code 0, and exit code 1 is produced exactly in the three
\* cases missing credential, HTTP error status, "error" key in the envelope.
C3_ExitOneExactly ==
    \A p \in Procs :
        Ended(p) =>
            /\ Presented(p) => proc[p].exitCode = 0
            /\ proc[p].exitCode = 1 <=>
                    NoCredential(p) \/ HttpStatusError(p) \/ OuterError(p)

\* C3, amended: a run that completes a presentation branch ends with exit
\* code 0, and exit code 1 is produced exactly in the three cases missing
\* credential, HTTP error status, "error" key in the envelope, and when the
\* run ends in an unhandled fault.
C3_ExitCodes ==
    \A p \in Procs :
        Ended(p) =>
            /\ Presented(p) => proc[p].exitCode = 0
            /\ proc[p].exitCode \in {0, 1}
            /\ proc[p].exitCode = 1 <=>
                    NoCredential(p) \/ HttpStatusError(p) \/ OuterError(p) \/ Unhandled(p)

\* C3: an inner-error report has completed, and so has a run that ended in
\* an unhandled fault outside the three cases
C3_Witness ==
    \E p \in Procs :
        /\ Ended(p)
        /\ \/ Presented(p) /\ IsInnerError(proc[p].inner)
           \/ Unhandled(p) /\ ~NoCredential(p) /\ ~HttpStatusError(p) /\ ~OuterError(p)

\* p's run ended before it had an inner payload
EndedEarly(p) ==
    /\ Ended(p)
    /\ \/ NoCredential(p)
       \/ HttpStatusError(p)
       \/ proc[p].answer.kind = "url_error"
       \/ OuterError(p)
       \/ Unhandled(p) /\ proc[p].inner = Unset

\* p's run got through the credential check, the HTTP call, the envelope's
\* error check and the decoding of the inner payload
PassedChecks(p) ==
    /\ ~NoCredential(p)
    /\ proc[p].answer.kind = "ok"
    /\ IsDict(proc[p].resp) /\ ~HasKey(proc[p].resp, "error")
    /\ proc[p].inner # Unset

\* C4: the snapshot file is overwritten only by a run that got through the
\* credential check, the HTTP call, the envelope's error check and the inner
\* decode; a run that ends earlier leaves the file as it was before the run.
C4_WrittenOnlyAfterDecode ==
    \A p \in Procs :
        /\ proc[p].pc # "idle" /\ file # proc[p].before => PassedChecks(p)
        /\ EndedEarly(p) => file = proc[p].before

\* C4: a run ended on a missing or unparsable result.content[0].text with a
\* snapshot of an earlier run on disk
C4_Witness ==
    \E p \in Procs :
        /\ EndedEarly(p) /\ Unhandled(p)
        /\ proc[p].answer.kind = "ok" /\ IsDict(proc[p].resp)
        /\ proc[p].before = OldSnapshot

\* C5 as the claim states it: when the server answers with an HTTP error
\* status, the run prints "HTTP <status>: " and at most the first 300
\* characters of the body and ends with exit code 1, having sent one request
\* and with no envelope parsed and no file written.
C5_HttpErrorReported ==
    \A p \in Procs :
        HttpStatusError(p) =>
            /\ Len(proc[p].sent) = 1
            /\ proc[p].resp = Unset /\ proc[p].inner = Unset
            /\ file = proc[p].before
            /\ Ended(p) =>
                LET head == "HTTP " \o IntToStr(proc[p].answer.code) \o ": "
                IN  /\ proc[p].exitCode = 1
                    /\ Len(proc[p].out) = 1
                    /\ StartsWith(proc[p].out[1], 1, head)
                    /\ Len(proc[p].out[1]) <= Len(head) + 300

\* C6: when the parsed envelope has an "error" key, the run prints that
\* value under the "JSON-RPC ERROR:" prefix and ends with exit code 1 before
\* it extracts result.content[0].text: no inner decode, no file write and no
\* presentation, also when a "result" key is there too.
C6_EnvelopeError ==
    \A p \in Procs :
        OuterError(p) =>
            /\ proc[p].pc \in {"check", "exited"}
            /\ proc[p].inner = Unset
            /\ file = proc[p].before
            /\ Ended(p) =>
                /\ proc[p].out =
                       <<"JSON-RPC ERROR: " \o JsonDumps(Lookup(proc[p].resp, "error"))>>
                /\ proc[p].exitCode = 1 /\ proc[p].exc = ""
            /\ Ended(p) /\ proc[p].answer = Responses[15] =>
                proc[p].out = <<"JSON-RPC ERROR: {\n  \"code\": -32601,\n  \"message\": \"no such method\"\n}">>

\* C6: a run has ended on an envelope that holds both "error" and "result"
C6_Witness ==
    \E p \in Procs : Ended(p) /\ OuterError(p) /\ HasKey(proc[p].resp, "result")

FlowFields == {"id", "displayName", "state", "triggerType"}

\* a Flow record: a mapping whose four fields, where present, are texts
IsFlow(fl) ==
    IsDict(fl) /\ \A k \in FlowFields : HasKey(fl, k) => IsStr(Lookup(fl, k))

\* the text of field k of a Flow record, "?" for an absent field
FieldText(fl, k) ==
    IF \E i \in 1..Len(fl.kvs) : fl.kvs[i].k = k THEN Lookup(fl, k).s ELSE "?"

Blank == "               "

\* s followed by blanks up to w characters
Padded(s, w) == IF Len(s) >= w THEN s ELSE s \o SubSeq(Blank, 1, w - Len(s))

\* the row of a Flow record
ExpectedRow(fl) ==
    LET id == FieldText(fl, "id")
    IN  "  " \o (IF Len(id) > 12 THEN SubSeq(id, 1, 12) ELSE id) \o "..  | "
             \o Padded(FieldText(fl, "state"), 10) \o " | "
             \o Padded(FieldText(fl, "triggerType"), 15) \o " | "
             \o FieldText(fl, "displayName")

\* the first line of the list branch (print ends it with a blank line)
ExpectedTotal(n) == "Total flows: " \o IntToStr(n) \o "\n"

\* C7 as the claim states it: for an inner payload that is a list, the run
\* prints "Total flows: <n>" and then exactly n rows in list order, each
\* with the id cut to 12 characters, the state, the trigger type and the
\* display name, "?" standing for an absent field.
C7_AnyList ==
    \A p \in Procs :
        Ended(p) /\ IsList(proc[p].inner) =>
            LET xs == proc[p].inner.xs
            IN  /\ Len(proc[p].out) = Len(xs) + 1
                /\ proc[p].out[1] = ExpectedTotal(Len(xs))
                /\ \A i \in 1..Len(xs) :
                        IsFlow(xs[i]) => proc[p].out[i + 1] = ExpectedRow(xs[i])

\* C7, amended: for an inner payload that is a list of Flow records
\* (mappings whose id, displayName, state and triggerType, where present,
\* are texts), the run prints "Total flows: <n>" and then exactly n rows in
\* list order, each with the id cut to 12 characters, the state, the trigger
\* type and the display name, "?" standing for an absent field, and ends
\* with exit code 0.
C7_FlowList ==
    \A p \in Procs :
        /\ Ended(p) /\ IsList(proc[p].inner)
           /\ (\A i \in 1..Len(proc[p].inner.xs) : IsFlow(proc[p].inner.xs[i])) =>
            LET xs == proc[p].inner.xs
            IN  /\ Len(proc[p].out) = Len(xs) + 1
                /\ proc[p].out[1] = ExpectedTotal(Len(xs))
                /\ \A i \in 1..Len(xs) : proc[p].out[i + 1] = ExpectedRow(xs[i])
                /\ proc[p].exitCode = 0 /\ proc[p].exc = ""
        /\ Ended(p) /\ proc[p].answer = Responses[2] =>
            proc[p].out = <<"Total flows: 1\n",
                            "  abcdefghijkl..  | active     | schedule        | Daily Sync">>

\* C7: the table of a list of several Flow records, one without an id and
\* one without a state, has been printed
C7_Witness ==
    \E p \in Procs :
        /\ Ended(p) /\ IsList(proc[p].inner) /\ Len(proc[p].inner.xs) >= 2
        /\ \A i \in 1..Len(proc[p].inner.xs) : IsFlow(proc[p].inner.xs[i])
        /\ \E i \in 1..Len(proc[p].inner.xs) : ~HasKey(proc[p].inner.xs[i], "id")
        /\ \E i \in 1..Len(proc[p].inner.xs) : ~HasKey(proc[p].inner.xs[i], "state")
        /\ Len(proc[p].out) = Len(proc[p].inner.xs) + 1

\* C8: two runs that get the same server response leave the snapshot file
\* with the same bytes after each run, whatever the file held before the
\* first: what a run writes is the serialization of its inner payload and
\* nothing of the earlier content.
C8_SameResponseSameFile ==
    \A p \in Procs :
        Ended(p) /\ prev.http # 0 /\ proc[p].http = prev.http =>
            /\ file = prev.file
            /\ proc[p].inner # Unset <=> prev.wrote
            /\ proc[p].inner # Unset => Holds(proc[p].inner)

\* C8: the second of two runs with the same response has written the same
\* payload again, shorter than the snapshot of an earlier time, over the
\* file the first run left
C8_Witness ==
    \E p \in Procs :
        /\ Ended(p) /\ prev.http # 0 /\ proc[p].http = prev.http
        /\ prev.wrote /\ proc[p].inner # Unset
        /\ Len(file.data) < Len(OldSnapshot.data)
        /\ proc[p].before = file

\* C9: the snapshot write is complete before any presentation output, so
\* when presentation faults on an unexpected payload shape the file holds
\* the whole inner payload and the run ends with a non-zero status.
C9_WriteBeforePresentation ==
    \A p \in Procs :
        /\ proc[p].inner # Unset /\ proc[p].out # <<>> =>
            proc[p].pc \in {"rows", "exited"} /\ Holds(proc[p].inner)
        /\ proc[p].inner # Unset /\ Unhandled(p) =>
            Holds(proc[p].inner) /\ proc[p].exitCode # 0

\* C9: presentation has faulted on a list whose element is not a mapping,
\* or whose id is not a text, after the first line was printed
C9_Witness ==
    \E p \in Procs :
        /\ Unhandled(p) /\ IsList(proc[p].inner) /\ proc[p].out # <<>>
        /\ \E i \in 1..Len(proc[p].inner.xs) : ~IsFlow(proc[p].inner.xs[i])
        /\ Holds(proc[p].inner)

\* C10 as the claim states it: when two invocations that run side by side
\* against the same snapshot path have both finished, the file holds
\* exactly the serialization of the one or of the other inner payload,
\* never a mixture, whatever the interleaving of their open and write steps.
C10_LastWriterWins ==
    (\A p \in Procs : Ended(p) /\ proc[p].inner # Unset) =>
        \E p \in Procs : Holds(proc[p].inner)

=============================================================================
